---- MODULE Spec2Model ----
(***************************************************************************)
(* CyberGuard front end (src/src/pages/Index.tsx and the EmailAnalyzer     *)
(* component): the email form, the handleEmailAnalysis handler with its    *)
(* backend call, and the local "demo mode" phishing heuristic that the     *)
(* handler falls back to.                                                  *)
(*                                                                         *)
(* A JavaScript string is a sequence of one-character strings, so that     *)
(* String.prototype.includes, toLowerCase, split and trim are computed on  *)
(* the characters.                                                         *)
(***************************************************************************)
EXTENDS Integers, Sequences, FiniteSets, TLC

\* ------------------------------------------------------------------------
\* Bounds of the model
\* ------------------------------------------------------------------------

\* Largest number of text fragments typed into the body field.
MaxBodyFrags == 2

\* Largest number of entries of analysisHistory.
MaxHistory == 2

\* ------------------------------------------------------------------------
\* JavaScript string and Math primitives
\* ------------------------------------------------------------------------

UpperCaseLetters ==
  <<"A", "B", "C", "D", "E", "F", "G", "H", "I", "J", "K", "L", "M", "N",
    "O", "P", "Q", "R", "S", "T", "U", "V", "W", "X", "Y", "Z">>

LowerCaseLetters ==
  <<"a", "b", "c", "d", "e", "f", "g", "h", "i", "j", "k", "l", "m", "n",
    "o", "p", "q", "r", "s", "t", "u", "v", "w", "x", "y", "z">>

\* One character of String.prototype.toLowerCase (ASCII letters).
toLowerCaseChar(c) ==
  IF \E i \in 1..Len(UpperCaseLetters) : UpperCaseLetters[i] = c
  THEN LowerCaseLetters[CHOOSE i \in 1..Len(UpperCaseLetters) :
                           UpperCaseLetters[i] = c]
  ELSE c

\* String.prototype.toLowerCase
toLowerCase(s) == [i \in 1..Len(s) |-> toLowerCaseChar(s[i])]

\* String.prototype.includes: word occurs in text as a substring.
includes(text, word) ==
  \E i \in 0..(Len(text) - Len(word)) :
     \A j \in 1..Len(word) : text[i + j] = word[j]

\* Mutant of filter: a phrase is listed once per occurrence in the text.
RECURSIVE filter_perOccurrence(_, _)
filter_perOccurrence(words, text) ==
  IF words = <<>> THEN <<>>
  ELSE LET word  == Head(words)
           count == Cardinality(
                      { i \in 0..(Len(text) - Len(word)) :
                          \A j \in 1..Len(word) : text[i + j] = word[j] })
       IN [k \in 1..count |-> word] \o filter_perOccurrence(Tail(words), text)

\* words.filter(word => text.includes(word))
filter(words, text) == SelectSeq(words, LAMBDA word : includes(text, word))

\* text.split(sep).length for a one-character separator: the number of
\* occurrences of sep, plus one.
splitLength(text, sep) ==
  Cardinality({i \in 1..Len(text) : text[i] = sep}) + 1

\* Characters String.prototype.trim removes.
WhiteSpace == {" ", "\t", "\n", "\r"}

RECURSIVE trimStart(_)
trimStart(s) ==
  IF s # <<>> /\ Head(s) \in WhiteSpace THEN trimStart(Tail(s)) ELSE s

RECURSIVE trimEnd(_)
trimEnd(s) ==
  IF s # <<>> /\ s[Len(s)] \in WhiteSpace
  THEN trimEnd(SubSeq(s, 1, Len(s) - 1))
  ELSE s

\* String.prototype.trim
trim(s) == trimEnd(trimStart(s))

MathMin(a, b) == IF a <= b THEN a ELSE b

MathMax(a, b) == IF a >= b THEN a ELSE b

\* Math.round of an integer-valued number: floor(x + 1/2).
MathRound(x) == (2 * x + 1) \div 2

\* [...new Set(list)]: the first occurrence of every element, in order.
RECURSIVE newSet(_)
newSet(list) ==
  IF list = <<>> THEN <<>>
  ELSE LET init == newSet(SubSeq(list, 1, Len(list) - 1))
           last == list[Len(list)]
       IN IF \E i \in 1..Len(init) : init[i] = last
          THEN init
          ELSE Append(init, last)

\* list.filter(Boolean) on a list of strings and nulls.
null == "null"

filterBoolean(list) == SelectSeq(list, LAMBDA x : x # null)

\* ------------------------------------------------------------------------
\* Lexicons of the demo-mode heuristic (handleEmailAnalysis)
\* ------------------------------------------------------------------------

urgencyWords ==
  << <<"u", "r", "g", "e", "n", "t">>,
     <<"i", "m", "m", "e", "d", "i", "a", "t", "e", "l", "y">>,
     <<"a", "s", "a", "p">>,
     <<"r", "i", "g", "h", "t", " ", "n", "o", "w">>,
     <<"a", "c", "t", " ", "n", "o", "w">>,
     <<"l", "i", "m", "i", "t", "e", "d", " ", "t", "i", "m", "e">> >>

\* Mutant of authorityWords: the lexicon lacks 'verify'.
authorityWords_noVerify ==
  << <<"c", "o", "n", "f", "i", "r", "m">>,
     <<"u", "p", "d", "a", "t", "e">>,
     <<"v", "a", "l", "i", "d", "a", "t", "e">>,
     <<"s", "e", "c", "u", "r", "i", "t", "y", " ", "a", "l", "e", "r", "t">>,
     <<"a", "c", "c", "o", "u", "n", "t", " ", "l", "o", "c", "k", "e", "d">> >>

authorityWords ==
  << <<"v", "e", "r", "i", "f", "y">>,
     <<"c", "o", "n", "f", "i", "r", "m">>,
     <<"u", "p", "d", "a", "t", "e">>,
     <<"v", "a", "l", "i", "d", "a", "t", "e">>,
     <<"s", "e", "c", "u", "r", "i", "t", "y", " ", "a", "l", "e", "r", "t">>,
     <<"a", "c", "c", "o", "u", "n", "t", " ", "l", "o", "c", "k", "e", "d">> >>

financialWords ==
  << <<"f", "r", "e", "e", " ", "m", "o", "n", "e", "y">>,
     <<"p", "r", "i", "z", "e">>,
     <<"w", "i", "n", "n", "e", "r">>,
     <<"c", "o", "n", "g", "r", "a", "t", "u", "l", "a", "t", "i", "o", "n",
    "s">>,
     <<"l", "o", "t", "t", "e", "r", "y">> >>

actionWords ==
  << <<"c", "l", "i", "c", "k", " ", "h", "e", "r", "e">>,
     <<"c", "l", "i", "c", "k", " ", "n", "o", "w">>,
     <<"v", "e", "r", "i", "f", "y", " ", "n", "o", "w">>,
     <<"r", "e", "s", "e", "t", " ", "p", "a", "s", "s", "w", "o", "r", "d">> >>

threatWords ==
  << <<"a", "c", "c", "o", "u", "n", "t", " ", "w", "i", "l", "l", " ", "b",
    "e", " ", "c", "l", "o", "s", "e", "d">>,
     <<"p", "e", "r", "m", "a", "n", "e", "n", "t", " ", "s", "u", "s", "p",
    "e", "n", "s", "i", "o", "n">>,
     <<"l", "e", "g", "a", "l", " ", "a", "c", "t", "i", "o", "n">> >>

\* ------------------------------------------------------------------------
\* The demo-mode heuristic: the constants computed by handleEmailAnalysis
\* ------------------------------------------------------------------------

\* `${emailData.subject} ${emailData.body}`.toLowerCase()
fullText(emailData) ==
  toLowerCase(emailData.subject \o <<" ">> \o emailData.body)

urgencyScore(text) == Len(filter(urgencyWords, text))

authorityScore(text) == Len(filter(authorityWords, text))

financialScore(text) == Len(filter(financialWords, text))

actionScore(text) == Len(filter(actionWords, text))

threatScore(text) == Len(filter(threatWords, text))

totalSuspiciousScore(urgency, authority, financial, action, threat) ==
  urgency + authority + financial + action + threat

hasUrls(text) ==
  includes(text, <<"h", "t", "t", "p">>) \/ includes(text, <<"w", "w", "w", ".">>)

hasExclamation(emailData) ==
  splitLength(emailData.subject \o emailData.body, "!") > 3

\* Mutant of isPhishing: the score threshold is off by one.
isPhishing_offByOne(total, urgency, urls) ==
  total > 2 \/ (urgency >= 1 /\ urls)

isPhishing(total, urgency, urls) ==
  total >= 2 \/ (urgency >= 1 /\ urls)

\* Mutant of confidence: the URL bonus is 10 instead of 20.
confidence_urlBonus10(phishing, total, urls, exclamation) ==
  IF phishing
  THEN MathMin(95, 50 + (total * 15) + (IF urls THEN 10 ELSE 0)
                      + (IF exclamation THEN 10 ELSE 0))
  ELSE MathMax(5, 50 - (total * 10))

\* Mutant of confidence: the phishing branch is not capped.
confidence_uncapped(phishing, total, urls, exclamation) ==
  IF phishing
  THEN 50 + (total * 15) + (IF urls THEN 20 ELSE 0)
          + (IF exclamation THEN 10 ELSE 0)
  ELSE MathMax(5, 50 - (total * 10))

\* Mutant of confidence: the safe branch loses 20 per pattern.
confidence_safeStep20(phishing, total, urls, exclamation) ==
  IF phishing
  THEN MathMin(95, 50 + (total * 15) + (IF urls THEN 20 ELSE 0)
                      + (IF exclamation THEN 10 ELSE 0))
  ELSE MathMax(5, 50 - (total * 20))

confidence(phishing, total, urls, exclamation) ==
  IF phishing
  THEN MathMin(95, 50 + (total * 15) + (IF urls THEN 20 ELSE 0)
                      + (IF exclamation THEN 10 ELSE 0))
  ELSE MathMax(5, 50 - (total * 10))

suspiciousPhrases(text) ==
  (IF urgencyScore(text) > 0 THEN filter(urgencyWords, text) ELSE <<>>)
  \o (IF authorityScore(text) > 0 THEN filter(authorityWords, text) ELSE <<>>)
  \o (IF financialScore(text) > 0 THEN filter(financialWords, text) ELSE <<>>)
  \o (IF actionScore(text) > 0 THEN filter(actionWords, text) ELSE <<>>)
  \o (IF threatScore(text) > 0 THEN filter(threatWords, text) ELSE <<>>)

label(phishing) == IF phishing THEN "Phishing" ELSE "Safe"

\* The template strings are kept as their fixed text and the values
\* interpolated into them.
reason_analysis(phishing, total) ==
  IF phishing
  THEN << "High confidence phishing detection. Detected ", total,
          " suspicious patterns. This email contains characteristics commonly found in phishing attempts." >>
  ELSE << "Email appears to be legitimate. No suspicious patterns detected." >>

\* Mutant of risk_level: the top band starts above 80.
risk_level_above80(conf) ==
  IF conf > 80 THEN "HIGH RISK"
  ELSE IF conf >= 60 THEN "MEDIUM RISK"
  ELSE IF conf >= 40 THEN "LOW RISK"
  ELSE "SAFE"

\* Mutant of risk_level: the thresholds are tested lowest first.
risk_level_ascending(conf) ==
  IF conf >= 40 THEN "LOW RISK"
  ELSE IF conf >= 60 THEN "MEDIUM RISK"
  ELSE IF conf >= 80 THEN "HIGH RISK"
  ELSE "SAFE"

risk_level(conf) ==
  IF conf >= 80 THEN "HIGH RISK"
  ELSE IF conf >= 60 THEN "MEDIUM RISK"
  ELSE IF conf >= 40 THEN "LOW RISK"
  ELSE "SAFE"

\* Mutant of summary: a total of 3 already counts as STRONG.
summary_strongFrom3(phishing, total) ==
  IF phishing
  THEN << "This email shows ",
          (IF total >= 3 THEN "STRONG"
           ELSE IF total > 1 THEN "MODERATE" ELSE "WEAK"),
          " indicators of phishing with ", total,
          " suspicious patterns detected." >>
  ELSE << "This email appears to be legitimate with minimal suspicious patterns detected." >>

summary(phishing, total) ==
  IF phishing
  THEN << "This email shows ",
          (IF total > 3 THEN "STRONG"
           ELSE IF total > 1 THEN "MODERATE" ELSE "WEAK"),
          " indicators of phishing with ", total,
          " suspicious patterns detected." >>
  ELSE << "This email appears to be legitimate with minimal suspicious patterns detected." >>

\* One entry of pattern_analysis.
patternEntry(words, text, explanation) ==
  [ score          |-> Len(filter(words, text)),
    patterns_found |-> filter(words, text),
    explanation    |-> explanation ]

pattern_analysis(text) ==
  [ urgency_indicators |->
      patternEntry(urgencyWords, text,
        "High urgency language is commonly used in phishing emails to pressure victims into quick action."),
    authority_claims |->
      patternEntry(authorityWords, text,
        "Phishing emails often impersonate legitimate authorities or institutions."),
    financial_incentives |->
      patternEntry(financialWords, text,
        "Offers of money, prizes, or financial benefits are common phishing tactics."),
    action_requirements |->
      patternEntry(actionWords, text,
        "Phishing emails typically require immediate action from the victim."),
    social_engineering |->
      [ score          |-> 0,
        patterns_found |-> <<>>,
        explanation    |->
          "Trust-building language is used to make phishing attempts appear legitimate." ],
    threats_and_pressure |->
      patternEntry(threatWords, text,
        "Threats of account closure or legal action are common phishing tactics.") ]

technical_analysis(emailData, urls, exclamation) ==
  [ urls_and_links |->
      [ total_urls      |-> IF urls THEN 1 ELSE 0,
        suspicious_urls |->
          IF urls
          THEN << <<"s", "u", "s", "p", "i", "c", "i", "o", "u", "s", " ", "l", "i", "n",
                  "k", " ", "d", "e", "t", "e", "c", "t", "e", "d">> >>
          ELSE <<>>,
        shortened_urls  |-> <<>>,
        explanation     |->
          "Suspicious or shortened URLs are often used to hide malicious destinations." ],
    email_structure |->
      [ subject_length        |-> Len(emailData.subject),
        body_length           |-> Len(emailData.body),
        excessive_punctuation |-> IF exclamation THEN 4 ELSE 0,
        all_caps_words        |-> <<>>,
        suspicious_formatting |->
          IF exclamation THEN << "Excessive exclamation marks" >> ELSE <<>>,
        explanation           |->
          "Unusual formatting, excessive punctuation, or all-caps text can indicate phishing." ],
    language_quality |->
      [ suspicious_patterns |-> <<>>,
        quality_score       |-> 85,
        explanation         |->
          "Poor grammar, unusual language patterns, or suspicious phrasing can indicate phishing." ] ]

\* The advisory strings, without their leading emoji.
\* Mutant of recommendations: the phishing list lacks the "delete" advice.
recommendations_noDelete(phishing) ==
  IF phishing
  THEN << "DO NOT click on any links in this email",
          "DO NOT provide any personal information",
          "DO NOT download any attachments",
          "Report this email as phishing to your email provider",
          "Verify any claims by contacting the organization directly through official channels" >>
  ELSE << "This email appears to be safe",
          "Always verify sender identity before taking any action",
          "Be cautious with any links, even in legitimate emails" >>

recommendations(phishing) ==
  IF phishing
  THEN << "DO NOT click on any links in this email",
          "DO NOT provide any personal information",
          "DO NOT download any attachments",
          "Delete this email immediately",
          "Report this email as phishing to your email provider",
          "Verify any claims by contacting the organization directly through official channels" >>
  ELSE << "This email appears to be safe",
          "Always verify sender identity before taking any action",
          "Be cautious with any links, even in legitimate emails" >>

\* Mutant of red_flags: the list is built whatever the classification.
red_flags_ungated(phishing, urgency, threat, financial, urls, exclamation) ==
  filterBoolean(
    << IF urgency >= 2 THEN "Multiple urgency indicators detected" ELSE null,
       IF threat > 0 THEN "Threats or pressure tactics used" ELSE null,
       IF financial > 0 THEN "Unsolicited financial offers or prizes"
                        ELSE null,
       IF urls THEN "Suspicious links present" ELSE null,
       IF exclamation THEN "Excessive exclamation marks" ELSE null >>)

\* Mutant of red_flags: one urgency phrase already raises the urgency flag.
red_flags_urgency1(phishing, urgency, threat, financial, urls, exclamation) ==
  IF phishing
  THEN filterBoolean(
         << IF urgency >= 1 THEN "Multiple urgency indicators detected"
                            ELSE null,
            IF threat > 0 THEN "Threats or pressure tactics used" ELSE null,
            IF financial > 0 THEN "Unsolicited financial offers or prizes"
                             ELSE null,
            IF urls THEN "Suspicious links present" ELSE null,
            IF exclamation THEN "Excessive exclamation marks" ELSE null >>)
  ELSE <<>>

red_flags(phishing, urgency, threat, financial, urls, exclamation) ==
  IF phishing
  THEN filterBoolean(
         << IF urgency >= 2 THEN "Multiple urgency indicators detected"
                            ELSE null,
            IF threat > 0 THEN "Threats or pressure tactics used" ELSE null,
            IF financial > 0 THEN "Unsolicited financial offers or prizes"
                             ELSE null,
            IF urls THEN "Suspicious links present" ELSE null,
            IF exclamation THEN "Excessive exclamation marks" ELSE null >>)
  ELSE <<>>

\* The demoResult object built in the catch block of handleEmailAnalysis.
demoResultOf(emailData) ==
  LET text        == fullText(emailData)
      urgency     == urgencyScore(text)
      authority   == authorityScore(text)
      financial   == financialScore(text)
      action      == actionScore(text)
      threat      == threatScore(text)
      total       == totalSuspiciousScore(urgency, authority, financial,
                                          action, threat)
      urls        == hasUrls(text)
      exclamation == hasExclamation(emailData)
      phishing    == isPhishing(total, urgency, urls)
      conf        == confidence(phishing, total, urls, exclamation)
  IN [ label              |-> label(phishing),
       confidence         |-> MathRound(conf),
       trust_score        |-> MathRound(conf),
       suspicious_phrases |-> newSet(suspiciousPhrases(text)),
       reason_analysis    |-> reason_analysis(phishing, total),
       detailed_analysis  |->
         [ overall_assessment |->
             [ label      |-> label(phishing),
               confidence |-> MathRound(conf),
               risk_level |-> risk_level(conf),
               summary    |-> summary(phishing, total) ],
           pattern_analysis   |-> pattern_analysis(text),
           technical_analysis |->
             technical_analysis(emailData, urls, exclamation),
           recommendations    |-> recommendations(phishing),
           red_flags          |->
             red_flags(phishing, urgency, threat, financial, urls,
                       exclamation) ] ]

\* ------------------------------------------------------------------------
\* Inputs: the texts a user can enter
\* ------------------------------------------------------------------------

\* The "High-Risk Phishing Email" test case of DETAILED_ANALYSIS_GUIDE.md.
ScenarioASubject ==
  <<"U", "R", "G", "E", "N", "T", ":", " ", "V", "e", "r", "i", "f", "y",
    " ", "Y", "o", "u", "r", " ", "A", "c", "c", "o", "u", "n", "t", " ",
    "I", "m", "m", "e", "d", "i", "a", "t", "e", "l", "y", "!">>

ScenarioABody ==
  <<"D", "e", "a", "r", " ", "C", "u", "s", "t", "o", "m", "e", "r", ",",
    " ", "Y", "o", "u", "r", " ", "a", "c", "c", "o", "u", "n", "t", " ",
    "h", "a", "s", " ", "b", "e", "e", "n", " ", "S", "U", "S", "P", "E",
    "N", "D", "E", "D", " ", "d", "u", "e", " ", "t", "o", " ", "s", "u",
    "s", "p", "i", "c", "i", "o", "u", "s", " ", "a", "c", "t", "i", "v",
    "i", "t", "y", ".", " ", "C", "l", "i", "c", "k", " ", "h", "e", "r",
    "e", " ", "t", "o", " ", "v", "e", "r", "i", "f", "y", " ", "y", "o",
    "u", "r", " ", "i", "d", "e", "n", "t", "i", "t", "y", " ", "i", "m",
    "m", "e", "d", "i", "a", "t", "e", "l", "y", " ", "o", "r", " ", "y",
    "o", "u", "r", " ", "a", "c", "c", "o", "u", "n", "t", " ", "w", "i",
    "l", "l", " ", "b", "e", " ", "P", "E", "R", "M", "A", "N", "E", "N",
    "T", "L", "Y", " ", "C", "L", "O", "S", "E", "D", "!", " ", "T", "h",
    "i", "s", " ", "i", "s", " ", "U", "R", "G", "E", "N", "T", " ", "-",
    " ", "a", "c", "t", " ", "n", "o", "w", "!", " ", "C", "l", "i", "c",
    "k", ":", " ", "h", "t", "t", "p", ":", "/", "/", "b", "i", "t", ".",
    "l", "y", "/", "v", "e", "r", "i", "f", "y", "-", "n", "o", "w">>

\* The "Legitimate Email" test case of DETAILED_ANALYSIS_GUIDE.md.
ScenarioBSubject ==
  <<"M", "e", "e", "t", "i", "n", "g", " ", "R", "e", "m", "i", "n", "d",
    "e", "r", " ", "-", " ", "T", "o", "m", "o", "r", "r", "o", "w", " ",
    "a", "t", " ", "2", " ", "P", "M">>

ScenarioBBody ==
  <<"H", "i", " ", "J", "o", "h", "n", ",", " ", "J", "u", "s", "t", " ",
    "a", " ", "f", "r", "i", "e", "n", "d", "l", "y", " ", "r", "e", "m",
    "i", "n", "d", "e", "r", " ", "a", "b", "o", "u", "t", " ", "o", "u",
    "r", " ", "m", "e", "e", "t", "i", "n", "g", " ", "t", "o", "m", "o",
    "r", "r", "o", "w", " ", "a", "t", " ", "2", " ", "P", "M", " ", "i",
    "n", " ", "t", "h", "e", " ", "c", "o", "n", "f", "e", "r", "e", "n",
    "c", "e", " ", "r", "o", "o", "m", ".", " ", "P", "l", "e", "a", "s",
    "e", " ", "b", "r", "i", "n", "g", " ", "t", "h", "e", " ", "q", "u",
    "a", "r", "t", "e", "r", "l", "y", " ", "r", "e", "p", "o", "r", "t",
    "s", " ", "w", "e", " ", "d", "i", "s", "c", "u", "s", "s", "e", "d",
    " ", "l", "a", "s", "t", " ", "w", "e", "e", "k", ".", " ", "B", "e",
    "s", "t", " ", "r", "e", "g", "a", "r", "d", "s", ",", " ", "S", "a",
    "r", "a", "h">>

\* An email that only uses trust-building language.
ValuedCustomerBody ==
  <<"D", "e", "a", "r", " ", "v", "a", "l", "u", "e", "d", " ", "c", "u",
    "s", "t", "o", "m", "e", "r", ",", " ", "t", "h", "a", "n", "k", " ",
    "y", "o", "u", " ", "f", "o", "r", " ", "y", "o", "u", "r", " ", "l",
    "o", "y", "a", "l", "t", "y", ".">>

\* A body that names the protocol without giving a link.
HttpWordBody ==
  <<"U", "r", "g", "e", "n", "t", ":", " ", "o", "u", "r", " ", "h", "t",
    "t", "p", " ", "s", "e", "r", "v", "e", "r", " ", "i", "s", " ", "d",
    "o", "w", "n", ".">>

\* Emails pasted into the body field as a whole.
PastedBodies ==
  { ScenarioABody, ScenarioBBody, ValuedCustomerBody, HttpWordBody }

ScenarioA == [subject |-> ScenarioASubject, body |-> ScenarioABody]

ScenarioB == [subject |-> ScenarioBSubject, body |-> ScenarioBBody]

\* Scenario C: nothing entered at all.
ScenarioC == [subject |-> <<>>, body |-> <<>>]

\* Pieces of text typed into the body field, one after the other.
BodyFrags ==
  { <<"u", "r", "g", "e", "n", "t", " ">>,
    <<"v", "e", "r", "i", "f", "y", " ", "n", "o", "w", " ">>,
    <<"h", "t", "t", "p", ":", "/", "/", "b", "i", "t", ".", "l", "y", "/",
    "x", " ">>,
    <<"!", "!", "!", " ">>,
    <<"l", "e", "g", "a", "l", " ", "a", "c", "t", "i", "o", "n", " ">>,
    <<"p", "r", "i", "z", "e", " ">>,
    <<" ">> }

RECURSIVE Concat(_)
Concat(frags) ==
  IF frags = <<>> THEN <<>> ELSE Head(frags) \o Concat(Tail(frags))

\* Values of the body field.
Bodies ==
  { Concat(frags) :
      frags \in UNION { [1..n -> BodyFrags] : n \in 0..MaxBodyFrags } }
  \cup PastedBodies

\* The pieces of text typed on the page (the other pieces only reach the
\* handler as arguments).
TypedFrags ==
  { <<"u", "r", "g", "e", "n", "t", " ">>,
    <<"h", "t", "t", "p", ":", "/", "/", "b", "i", "t", ".", "l", "y", "/",
      "x", " ">>,
    <<" ">> }

\* Values of the body field on the page.
FormBodies ==
  { Concat(frags) :
      frags \in UNION { [1..n -> TypedFrags] : n \in 0..MaxBodyFrags } }
  \cup PastedBodies

\* Values of the subject field.
Subjects == { <<>>, ScenarioASubject, ScenarioBSubject }

\* Arguments handleEmailAnalysis can be called with.
EmailInputs == [subject : Subjects, body : Bodies]

\* What response.json() of POST /analyze/email resolves to.
BackendResults ==
  { [ label              |-> "Phishing",
      confidence         |-> 87,
      trust_score        |-> 13,
      suspicious_phrases |-> << <<"u", "r", "g", "e", "n", "t">> >>,
      reason_analysis    |-> << "backend: phishing" >> ],
    [ label              |-> "Safe",
      confidence         |-> 12,
      trust_score        |-> 88,
      suspicious_phrases |-> <<>>,
      reason_analysis    |-> << "backend: safe" >> ] }

\* Errors thrown inside the try block.  fetch() rejects with a TypeError
\* whose message depends on the browser.
FailedToFetch ==
  [ name |-> "TypeError", message |-> <<"F", "a", "i", "l", "e", "d", " ", "t", "o", " ", "f", "e", "t", "c",
    "h">> ]

NetworkError ==
  [ name    |-> "TypeError",
    message |-> <<"N", "e", "t", "w", "o", "r", "k", "E", "r", "r", "o", "r", " ", "w",
    "h", "e", "n", " ", "a", "t", "t", "e", "m", "p", "t", "i", "n", "g",
    " ", "t", "o", " ", "f", "e", "t", "c", "h", " ", "r", "e", "s", "o",
    "u", "r", "c", "e", ".">> ]

HttpError ==
  [ name |-> "Error", message |-> <<"H", "T", "T", "P", " ", "e", "r", "r", "o", "r", "!", " ", "s", "t",
    "a", "t", "u", "s", ":", " ", "5", "0", "0">> ]

JsonSyntaxError ==
  [ name |-> "SyntaxError", message |-> <<"U", "n", "e", "x", "p", "e", "c", "t", "e", "d", " ", "t", "o", "k",
    "e", "n", " ", "<", " ", "i", "n", " ", "J", "S", "O", "N">> ]

NoError == [ name |-> "none", message |-> <<>> ]

NoResult == [ label |-> "none" ]

\* The value of a property an object does not have.
undefined == "undefined"

\* MIME types of the files offered to the file input.
ImagePng == <<"i", "m", "a", "g", "e", "/", "p", "n", "g">>

VideoMp4 == <<"v", "i", "d", "e", "o", "/", "m", "p", "4">>

ApplicationPdf == <<"a", "p", "p", "l", "i", "c", "a", "t", "i", "o", "n",
                    "/", "p", "d", "f">>

\* The files a user can pick: an image of exactly 20MB and one of a byte
\* more, a video of 5MB and one of a byte more than 50MB, and a document.
Files ==
  { [ type |-> ImagePng, size |-> 20 * 1024 * 1024 ],
    [ type |-> ImagePng, size |-> (20 * 1024 * 1024) + 1 ],
    [ type |-> VideoMp4, size |-> 5 * 1024 * 1024 ],
    [ type |-> VideoMp4, size |-> (50 * 1024 * 1024) + 1 ],
    [ type |-> ApplicationPdf, size |-> 5 * 1024 * 1024 ] }

NoFile == [ type |-> <<>>, size |-> 0 ]

\* What the successive calls of Math.random() of one demo-mode run return,
\* in thousandths.
RandomDraws ==
  { << 0, 0, 0, 600, 0 >>,
    << 601, 999, 999, 601, 999 >> }

\* What response.json() of POST /analyze/media resolves to.
MediaBackendResults ==
  { [ label              |-> "AI-Generated",
      confidence         |-> 91,
      trust_score        |-> 9,
      suspicious_phrases |-> undefined,
      reason_analysis    |-> << "backend: ai-generated" >>,
      frames_analyzed    |-> undefined ] }

\* The texts entered on the page when both tabs are in use.
PageSubjects == { <<>>, <<"a", "s", "a", "p">> }

PageBodies == { <<>>, <<"u", "r", "g", "e", "n", "t", " ">> }

NoEmail == [ subject |-> <<>>, body |-> <<>> ]

\* The effect "Update stats when history changes".
newStats(history) ==
  LET count(test(_)) ==
        Cardinality({ k \in 1..Len(history) : test(history[k]) })
      phishing(h) == h.type = "email" /\ h.result.label = "Phishing"
      deepfake(h) == h.type = "deepfake" /\ h.result.label = "AI-Generated"
      safe(h)     == h.result.label \in {"Safe", "Human-Created"}
  IN [ totalScans       |-> Len(history),
       phishingDetected |-> count(phishing),
       deepfakesFound   |-> count(deepfake),
       safeContent      |-> count(safe) ]

\* ------------------------------------------------------------------------
\* State
\* ------------------------------------------------------------------------

VARIABLES
  subject,          \* EmailAnalyzer: useState("")
  body,             \* EmailAnalyzer: useState("")
  result,           \* EmailAnalyzer: useState(null)
  isAnalyzing,      \* Index: useState(false)
  analysisHistory,  \* Index: useState([]), newest entry first
  showCompletion,   \* Index: useState(false)
  lastAnalysisType, \* Index: useState(null)
  localStorage,     \* item 'cyberguard-analysis-history'
  toast,            \* title of the last toast shown
  pc,               \* position of the running handleEmailAnalysis call
  emailData,        \* its argument
  closureHistory,   \* analysisHistory as captured by its closure
  error,            \* the error caught by its catch block
  demoResult,       \* its demoResult constant
  stats,            \* Index: useState({totalScans: 0, ...})
  activeTab,        \* Index: useState("email")
  currentDeepfakeResult, \* Index: useState(null)
  selectedFile,     \* DeepfakeDetector: useState(null)
  previewUrl,       \* DeepfakeDetector: useState(null), the file it shows
  detectorResult,   \* DeepfakeDetector: its own result, useState(null)
  reading,          \* files whose FileReader has not yet called onload
  mediaPc,          \* position of the running handleDeepfakeAnalysis call
  file,             \* its argument
  mediaClosureHistory, \* analysisHistory as captured by its closure
  mediaError        \* the error caught by its catch block

vars ==
  << subject, body, result, isAnalyzing, analysisHistory, showCompletion,
     lastAnalysisType, localStorage, toast, pc, emailData, closureHistory,
     error, demoResult, stats, activeTab, currentDeepfakeResult,
     selectedFile, previewUrl, detectorResult, reading, mediaPc, file,
     mediaClosureHistory, mediaError >>

formVars == << subject, body, result >>

indexVars == << analysisHistory, showCompletion, lastAnalysisType,
                localStorage, stats >>

detectorVars == << selectedFile, previewUrl, detectorResult, reading >>

mediaCallVars == << mediaPc, file, mediaClosureHistory, mediaError >>

mediaVars == << activeTab, currentDeepfakeResult, detectorVars,
                mediaCallVars >>

callVars == << emailData, closureHistory >>

\* State after construction of the page.
Init ==
  /\ subject = <<>>
  /\ body = <<>>
  /\ result = null
  /\ isAnalyzing = FALSE
  /\ analysisHistory = <<>>
  /\ showCompletion = FALSE
  /\ lastAnalysisType = null
  /\ localStorage = <<>>
  /\ toast = null
  /\ pc = "idle"
  /\ emailData = NoEmail
  /\ closureHistory = <<>>
  /\ error = NoError
  /\ demoResult = NoResult
  /\ stats = newStats(<<>>)
  /\ activeTab = "email"
  /\ currentDeepfakeResult = NoResult
  /\ selectedFile = NoFile
  /\ previewUrl = NoFile
  /\ detectorResult = NoResult
  /\ reading = {}
  /\ mediaPc = "idle"
  /\ file = NoFile
  /\ mediaClosureHistory = <<>>
  /\ mediaError = NoError

\* handleEmailAnalysis called on an arbitrary argument, just after its
\* synchronous prefix setIsAnalyzing(true).
InitEngine ==
  /\ emailData \in EmailInputs
  /\ subject = emailData.subject
  /\ body = emailData.body
  /\ result = null
  /\ isAnalyzing = TRUE
  /\ analysisHistory = <<>>
  /\ showCompletion = FALSE
  /\ lastAnalysisType = null
  /\ localStorage = <<>>
  /\ toast = null
  /\ pc = "healthCheck"
  /\ closureHistory = <<>>
  /\ error = NoError
  /\ demoResult = NoResult
  /\ stats = newStats(<<>>)
  /\ activeTab = "email"
  /\ currentDeepfakeResult = NoResult
  /\ selectedFile = NoFile
  /\ previewUrl = NoFile
  /\ detectorResult = NoResult
  /\ reading = {}
  /\ mediaPc = "idle"
  /\ file = NoFile
  /\ mediaClosureHistory = <<>>
  /\ mediaError = NoError

\* ------------------------------------------------------------------------
\* EmailAnalyzer
\* ------------------------------------------------------------------------

\* onChange of the subject input (disabled while isAnalyzing).
setSubject(value) ==
  /\ ~isAnalyzing
  /\ value # subject
  /\ subject' = value
  /\ UNCHANGED << mediaVars, body, result, isAnalyzing, indexVars, toast, pc,
                  callVars,
                  error, demoResult >>

\* onChange of the body textarea (disabled while isAnalyzing): the text is
\* cleared, replaced by a pasted email, or extended by one fragment.
setBody(value) ==
  /\ ~isAnalyzing
  /\ value # body
  /\ value \in FormBodies
  /\ \/ value \in { <<>> } \cup PastedBodies
     \/ \E frag \in TypedFrags : value = body \o frag
  /\ body' = value
  /\ UNCHANGED << mediaVars, subject, result, isAnalyzing, indexVars, toast,
                  pc,
                  callVars, error, demoResult >>

\* The "Analyze Email" button is disabled while isAnalyzing or while both
\* fields are blank.
analyzeDisabled ==
  isAnalyzing \/ (trim(subject) = <<>> /\ trim(body) = <<>>)

\* Mutant of handleAnalyze: neither the button nor the handler tests for
\* blank fields.
handleAnalyze_noBlankCheck ==
  /\ ~isAnalyzing
  /\ pc = "idle"
  /\ Len(analysisHistory) < MaxHistory
  /\ emailData' = [subject |-> subject, body |-> body]
  /\ closureHistory' = analysisHistory
  /\ isAnalyzing' = TRUE
  /\ pc' = "healthCheck"
  /\ UNCHANGED << mediaVars, formVars, indexVars, toast, error, demoResult >>

\* Click on "Analyze Email": handleAnalyze, and through onAnalyze the
\* synchronous prefix of handleEmailAnalysis up to its first await.
handleAnalyze ==
  /\ ~analyzeDisabled
  /\ pc = "idle"
  /\ Len(analysisHistory) < MaxHistory
  /\ IF trim(subject) = <<>> /\ trim(body) = <<>>
     THEN /\ toast' = "Email content required"
          /\ UNCHANGED << isAnalyzing, pc, callVars >>
     ELSE /\ emailData' = [subject |-> subject, body |-> body]
          /\ closureHistory' = analysisHistory
          /\ isAnalyzing' = TRUE
          /\ pc' = "healthCheck"
          /\ UNCHANGED toast
  /\ UNCHANGED << mediaVars, formVars, indexVars, error, demoResult >>

\* ------------------------------------------------------------------------
\* Index: saveAnalysisToHistory and handleEmailAnalysis
\* ------------------------------------------------------------------------

\* The entry saveAnalysisToHistory builds (its id and timestamp, both read
\* from the clock, are left out).
newAnalysis(type, res) ==
  [ type   |-> type,
    result |-> [ label              |-> res.label,
                 confidence         |-> res.confidence,
                 trust_score        |-> res.trust_score,
                 suspicious_phrases |-> res.suspicious_phrases,
                 reason_analysis    |-> res.reason_analysis ] ]

\* Mutant of saveAnalysisToHistory: the new entry is put last.
saveAnalysisToHistory_append(type, res, snapshot) ==
  LET updatedHistory == snapshot \o << newAnalysis(type, res) >>
  IN /\ analysisHistory' = updatedHistory
     /\ localStorage' = updatedHistory
     /\ stats' = newStats(updatedHistory)

\* saveAnalysisToHistory(type, result), run by a handler's closure, whose
\* analysisHistory is the snapshot of the render that created it; the stats
\* effect follows the state change.
saveAnalysisToHistory(type, res, snapshot) ==
  LET updatedHistory == << newAnalysis(type, res) >> \o snapshot
  IN /\ analysisHistory' = updatedHistory
     /\ localStorage' = updatedHistory
     /\ stats' = newStats(updatedHistory)

\* await healthCheck(800) resolves to true.
HealthCheckUp ==
  /\ pc = "healthCheck"
  /\ pc' = "fetch"
  /\ UNCHANGED << mediaVars, formVars, isAnalyzing, indexVars, toast,
                  callVars, error,
                  demoResult >>

\* await healthCheck(800) resolves to false: throw TypeError('Failed to
\* fetch').
HealthCheckDown ==
  /\ pc = "healthCheck"
  /\ error' = FailedToFetch
  /\ pc' = "catch"
  /\ UNCHANGED << mediaVars, formVars, isAnalyzing, indexVars, toast,
                  callVars,
                  demoResult >>

\* await fetch(.../analyze/email) rejects.
FetchRejects ==
  /\ pc = "fetch"
  /\ error' \in { FailedToFetch, NetworkError }
  /\ pc' = "catch"
  /\ UNCHANGED << mediaVars, formVars, isAnalyzing, indexVars, toast,
                  callVars,
                  demoResult >>

\* The response arrives with !response.ok: throw Error('HTTP error! ...').
FetchNotOk ==
  /\ pc = "fetch"
  /\ error' = HttpError
  /\ pc' = "catch"
  /\ UNCHANGED << mediaVars, formVars, isAnalyzing, indexVars, toast,
                  callVars,
                  demoResult >>

\* The response arrives with response.ok.
FetchOk ==
  /\ pc = "fetch"
  /\ pc' = "json"
  /\ UNCHANGED << mediaVars, formVars, isAnalyzing, indexVars, toast,
                  callVars, error,
                  demoResult >>

\* await response.json() rejects: the body is not JSON.
JsonRejects ==
  /\ pc = "json"
  /\ error' = JsonSyntaxError
  /\ pc' = "catch"
  /\ UNCHANGED << mediaVars, formVars, isAnalyzing, indexVars, toast,
                  callVars,
                  demoResult >>

\* await response.json() resolves: the rest of the try block.
BackendSuccess ==
  /\ pc = "json"
  /\ \E res \in BackendResults :
        saveAnalysisToHistory("email", res, closureHistory)
  /\ lastAnalysisType' = "email"
  /\ showCompletion' = TRUE
  /\ toast' = "Email Analysis Complete"
  /\ pc' = "finally"
  /\ UNCHANGED << mediaVars, formVars, isAnalyzing, callVars, error,
                  demoResult >>

\* Mutant of isConnectionError: the message of the TypeError is not tested.
isConnectionError_anyTypeError(e) == e.name = "TypeError"

\* The condition of the catch block that selects demo mode.
isConnectionError(e) ==
  e.name = "TypeError" /\ includes(e.message, <<"F", "a", "i", "l", "e", "d", " ", "t", "o", " ", "f", "e", "t", "c",
    "h">>)

\* catch block, connection error: the demo-mode analysis.
DemoMode ==
  /\ pc = "catch"
  /\ isConnectionError(error)
  /\ demoResult' = demoResultOf(emailData)
  /\ saveAnalysisToHistory("email", demoResult', closureHistory)
  /\ lastAnalysisType' = "email"
  /\ showCompletion' = TRUE
  /\ toast' = "Email Analysis Complete (Demo Mode)"
  /\ pc' = "finally"
  /\ UNCHANGED << mediaVars, formVars, isAnalyzing, callVars, error >>

\* catch block, any other error.
AnalysisFailed ==
  /\ pc = "catch"
  /\ ~isConnectionError(error)
  /\ toast' = "Analysis Failed"
  /\ pc' = "finally"
  /\ UNCHANGED << mediaVars, formVars, isAnalyzing, indexVars, callVars,
                  error,
                  demoResult >>

\* finally block: setIsAnalyzing(false); the call and its locals end.
Finally ==
  /\ pc = "finally"
  /\ isAnalyzing' = FALSE
  /\ pc' = "idle"
  /\ emailData' = NoEmail
  /\ closureHistory' = <<>>
  /\ error' = NoError
  /\ demoResult' = NoResult
  /\ UNCHANGED << mediaVars, formVars, indexVars, toast >>

\* The steps of one handleEmailAnalysis call.
handleEmailAnalysis ==
  \/ HealthCheckUp
  \/ HealthCheckDown
  \/ FetchRejects
  \/ FetchNotOk
  \/ FetchOk
  \/ JsonRejects
  \/ BackendSuccess
  \/ DemoMode
  \/ AnalysisFailed
  \/ Finally

\* ------------------------------------------------------------------------
\* DeepfakeDetector
\* ------------------------------------------------------------------------

\* String.prototype.startsWith
startsWith(s, prefix) ==
  /\ Len(s) >= Len(prefix)
  /\ SubSeq(s, 1, Len(prefix)) = prefix

\* const displayResult = propResult || result
displayResult ==
  IF currentDeepfakeResult # NoResult THEN currentDeepfakeResult
  ELSE detectorResult

isImageOrVideo(f) ==
  startsWith(f.type, <<"i", "m", "a", "g", "e", "/">>)
    \/ startsWith(f.type, <<"v", "i", "d", "e", "o", "/">>)

\* The size limit of handleFileSelect.
maxSize(f) ==
  IF startsWith(f.type, <<"v", "i", "d", "e", "o", "/">>)
  THEN 50 * 1024 * 1024
  ELSE 20 * 1024 * 1024

\* Mutant of handleFileSelect: the size of the file is not validated.
handleFileSelect_noSizeCheck(f) ==
  /\ activeTab = "deepfake"
  /\ previewUrl = NoFile
  /\ ~isAnalyzing
  /\ IF ~isImageOrVideo(f)
     THEN /\ toast' = "Invalid file type"
          /\ UNCHANGED detectorVars
     ELSE /\ selectedFile' = f
          /\ detectorResult' = NoResult
          /\ reading' = reading \cup {f}
          /\ toast' = "Media uploaded successfully"
          /\ UNCHANGED previewUrl
  /\ UNCHANGED << formVars, isAnalyzing, indexVars, pc, callVars, error,
                  demoResult, activeTab, currentDeepfakeResult,
                  mediaCallVars >>

\* onChange of the file input, which is rendered while there is no preview
\* and disabled while isAnalyzing.
handleFileSelect(f) ==
  /\ activeTab = "deepfake"
  /\ previewUrl = NoFile
  /\ ~isAnalyzing
  /\ IF ~isImageOrVideo(f)
     THEN /\ toast' = "Invalid file type"
          /\ UNCHANGED detectorVars
     ELSE IF f.size > maxSize(f)
     THEN /\ toast' = "File too large"
          /\ UNCHANGED detectorVars
     ELSE /\ selectedFile' = f
          /\ detectorResult' = NoResult
          /\ reading' = reading \cup {f}
          /\ toast' = "Media uploaded successfully"
          /\ UNCHANGED previewUrl
  /\ UNCHANGED << formVars, isAnalyzing, indexVars, pc, callVars, error,
                  demoResult, activeTab, currentDeepfakeResult,
                  mediaCallVars >>

\* reader.onload of a FileReader started by handleFileSelect.
readerOnload(f) ==
  /\ f \in reading
  /\ previewUrl' = f
  /\ reading' = reading \ {f}
  /\ UNCHANGED << formVars, isAnalyzing, indexVars, toast, pc, callVars,
                  error, demoResult, activeTab, currentDeepfakeResult,
                  selectedFile, detectorResult, mediaCallVars >>

\* Click on the X of the preview, which is rendered while not isAnalyzing.
handleRemoveFile ==
  /\ activeTab = "deepfake"
  /\ previewUrl # NoFile
  /\ ~isAnalyzing
  /\ selectedFile' = NoFile
  /\ previewUrl' = NoFile
  /\ detectorResult' = NoResult
  /\ UNCHANGED << formVars, isAnalyzing, indexVars, toast, pc, callVars,
                  error, demoResult, activeTab, currentDeepfakeResult,
                  reading, mediaCallVars >>

\* Mutant of DeepfakeDetector_handleAnalyze: the handler it calls does not
\* raise isAnalyzing.
DeepfakeDetector_handleAnalyze_notAnalyzing ==
  /\ activeTab = "deepfake"
  /\ selectedFile # NoFile
  /\ ~isAnalyzing
  /\ mediaPc = "idle"
  /\ Len(analysisHistory) < MaxHistory
  /\ file' = selectedFile
  /\ mediaClosureHistory' = analysisHistory
  /\ mediaPc' = "healthCheck"
  /\ UNCHANGED << formVars, isAnalyzing, indexVars, toast, pc, callVars,
                  error, demoResult, activeTab, currentDeepfakeResult,
                  detectorVars, mediaError >>

\* Click on "Analyze for Deepfakes", which is rendered while a file is
\* selected and disabled while isAnalyzing: handleAnalyze, and through
\* onAnalyze the synchronous prefix of handleDeepfakeAnalysis.
DeepfakeDetector_handleAnalyze ==
  /\ activeTab = "deepfake"
  /\ selectedFile # NoFile
  /\ ~isAnalyzing
  /\ mediaPc = "idle"
  /\ Len(analysisHistory) < MaxHistory
  /\ file' = selectedFile
  /\ mediaClosureHistory' = analysisHistory
  /\ isAnalyzing' = TRUE
  /\ mediaPc' = "healthCheck"
  /\ UNCHANGED << formVars, indexVars, toast, pc, callVars, error,
                  demoResult, activeTab, currentDeepfakeResult,
                  detectorVars, mediaError >>

\* handleClearForm of Index, passed to the detector as onClearForm.
handleClearForm ==
  /\ showCompletion' = FALSE
  /\ lastAnalysisType' = null
  /\ currentDeepfakeResult' = NoResult
  /\ toast' = "Form cleared"

\* Click on "Analyze Another File", which is rendered while a result is
\* displayed.  The click() on the file input changes no state.
DeepfakeDetector_handleAnalyzeAnother ==
  /\ activeTab = "deepfake"
  /\ displayResult # NoResult
  /\ selectedFile' = NoFile
  /\ previewUrl' = NoFile
  /\ detectorResult' = NoResult
  /\ handleClearForm
  /\ UNCHANGED << formVars, isAnalyzing, analysisHistory, localStorage,
                  stats, pc, callVars, error, demoResult, activeTab,
                  reading, mediaCallVars >>

\* Click on "Clear Form", which is rendered while a result is displayed.
DeepfakeDetector_handleClearForm ==
  /\ activeTab = "deepfake"
  /\ displayResult # NoResult
  /\ selectedFile' = NoFile
  /\ previewUrl' = NoFile
  /\ detectorResult' = NoResult
  /\ handleClearForm
  /\ UNCHANGED << formVars, isAnalyzing, analysisHistory, localStorage,
                  stats, pc, callVars, error, demoResult, activeTab,
                  reading, mediaCallVars >>

\* ------------------------------------------------------------------------
\* Index: handleDeepfakeAnalysis and the tabs
\* ------------------------------------------------------------------------

\* Math.floor(Math.random() * n), for a draw r in thousandths.
randomInt(r, n) == (r * n) \div 1000

\* The demoResult of handleDeepfakeAnalysis for the draws r of Math.random().
mediaDemoResultOf(f, r) ==
  LET isVideo == startsWith(f.type, <<"v", "i", "d", "e", "o", "/">>)
      isAudio == startsWith(f.type, <<"a", "u", "d", "i", "o", "/">>)
  IN IF f.size > 10 * 1024 * 1024
     THEN [ label              |-> "AI-Generated",
            confidence         |-> randomInt(r[1], 20) + 70,
            trust_score        |-> randomInt(r[2], 20) + 70,
            suspicious_phrases |-> undefined,
            reason_analysis    |->
              << "High confidence AI-generated detection. This large media file shows characteristics commonly associated with AI-generated content." >>,
            frames_analyzed    |->
              IF isVideo THEN randomInt(r[3], 20) + 10 ELSE undefined,
            duration           |->
              IF isAudio
              THEN randomInt(r[IF isVideo THEN 4 ELSE 3], 30) + 10
              ELSE undefined ]
     ELSE [ label              |->
              IF r[1] > 600 THEN "AI-Generated" ELSE "Human-Created",
            confidence         |-> randomInt(r[2], 40) + 30,
            trust_score        |-> randomInt(r[3], 40) + 30,
            suspicious_phrases |-> undefined,
            reason_analysis    |->
              IF r[4] > 600
              THEN << "Moderate confidence AI-generated detection. This media appears to be artificially generated using AI technology." >>
              ELSE << "This media appears to be created by humans without AI manipulation." >>,
            frames_analyzed    |->
              IF isVideo THEN randomInt(r[5], 20) + 10 ELSE undefined,
            duration           |->
              IF isAudio
              THEN randomInt(r[IF isVideo THEN 6 ELSE 5], 30) + 10
              ELSE undefined ]

\* await healthCheck(800) resolves to true.
MediaHealthCheckUp ==
  /\ mediaPc = "healthCheck"
  /\ mediaPc' = "fetch"
  /\ UNCHANGED << formVars, isAnalyzing, indexVars, toast, pc, callVars,
                  error, demoResult, activeTab, currentDeepfakeResult,
                  detectorVars, file, mediaClosureHistory, mediaError >>

\* await healthCheck(800) resolves to false: throw TypeError('Failed to
\* fetch').
MediaHealthCheckDown ==
  /\ mediaPc = "healthCheck"
  /\ mediaError' = FailedToFetch
  /\ mediaPc' = "catch"
  /\ UNCHANGED << formVars, isAnalyzing, indexVars, toast, pc, callVars,
                  error, demoResult, activeTab, currentDeepfakeResult,
                  detectorVars, file, mediaClosureHistory >>

\* await fetch(.../analyze/media) rejects.
MediaFetchRejects ==
  /\ mediaPc = "fetch"
  /\ mediaError' \in { FailedToFetch, NetworkError }
  /\ mediaPc' = "catch"
  /\ UNCHANGED << formVars, isAnalyzing, indexVars, toast, pc, callVars,
                  error, demoResult, activeTab, currentDeepfakeResult,
                  detectorVars, file, mediaClosureHistory >>

\* The response arrives with !response.ok: throw Error('HTTP error! ...').
MediaFetchNotOk ==
  /\ mediaPc = "fetch"
  /\ mediaError' = HttpError
  /\ mediaPc' = "catch"
  /\ UNCHANGED << formVars, isAnalyzing, indexVars, toast, pc, callVars,
                  error, demoResult, activeTab, currentDeepfakeResult,
                  detectorVars, file, mediaClosureHistory >>

\* The response arrives with response.ok.
MediaFetchOk ==
  /\ mediaPc = "fetch"
  /\ mediaPc' = "json"
  /\ UNCHANGED << formVars, isAnalyzing, indexVars, toast, pc, callVars,
                  error, demoResult, activeTab, currentDeepfakeResult,
                  detectorVars, file, mediaClosureHistory, mediaError >>

\* await response.json() rejects: the body is not JSON.
MediaJsonRejects ==
  /\ mediaPc = "json"
  /\ mediaError' = JsonSyntaxError
  /\ mediaPc' = "catch"
  /\ UNCHANGED << formVars, isAnalyzing, indexVars, toast, pc, callVars,
                  error, demoResult, activeTab, currentDeepfakeResult,
                  detectorVars, file, mediaClosureHistory >>

\* await response.json() resolves: the rest of the try block.
MediaBackendSuccess ==
  /\ mediaPc = "json"
  /\ \E res \in MediaBackendResults :
        /\ saveAnalysisToHistory("deepfake", res, mediaClosureHistory)
        /\ currentDeepfakeResult' = res
  /\ lastAnalysisType' = "deepfake"
  /\ showCompletion' = TRUE
  /\ toast' = "Media Analysis Complete"
  /\ mediaPc' = "finally"
  /\ UNCHANGED << formVars, isAnalyzing, pc, callVars, error, demoResult,
                  activeTab, detectorVars, file, mediaClosureHistory,
                  mediaError >>

\* catch block, connection error: the demo-mode result.
MediaDemoMode ==
  /\ mediaPc = "catch"
  /\ isConnectionError(mediaError)
  /\ \E r \in RandomDraws :
        /\ saveAnalysisToHistory("deepfake", mediaDemoResultOf(file, r),
                                 mediaClosureHistory)
        /\ currentDeepfakeResult' = mediaDemoResultOf(file, r)
  /\ lastAnalysisType' = "deepfake"
  /\ showCompletion' = TRUE
  /\ toast' = "Media Analysis Complete (Demo Mode)"
  /\ mediaPc' = "finally"
  /\ UNCHANGED << formVars, isAnalyzing, pc, callVars, error, demoResult,
                  activeTab, detectorVars, file, mediaClosureHistory,
                  mediaError >>

\* catch block, any other error.
MediaAnalysisFailed ==
  /\ mediaPc = "catch"
  /\ ~isConnectionError(mediaError)
  /\ toast' = "Analysis Failed"
  /\ mediaPc' = "finally"
  /\ UNCHANGED << formVars, isAnalyzing, indexVars, pc, callVars, error,
                  demoResult, activeTab, currentDeepfakeResult,
                  detectorVars, file, mediaClosureHistory, mediaError >>

\* Mutant of MediaFinally: isAnalyzing is not reset.
MediaFinally_keepsAnalyzing ==
  /\ mediaPc = "finally"
  /\ mediaPc' = "idle"
  /\ file' = NoFile
  /\ mediaClosureHistory' = <<>>
  /\ mediaError' = NoError
  /\ UNCHANGED << formVars, isAnalyzing, indexVars, toast, pc, callVars,
                  error, demoResult, activeTab, currentDeepfakeResult,
                  detectorVars >>

\* finally block: setIsAnalyzing(false); the call and its locals end.
MediaFinally ==
  /\ mediaPc = "finally"
  /\ isAnalyzing' = FALSE
  /\ mediaPc' = "idle"
  /\ file' = NoFile
  /\ mediaClosureHistory' = <<>>
  /\ mediaError' = NoError
  /\ UNCHANGED << formVars, indexVars, toast, pc, callVars, error,
                  demoResult, activeTab, currentDeepfakeResult,
                  detectorVars >>

\* The steps of one handleDeepfakeAnalysis call.
handleDeepfakeAnalysis ==
  \/ MediaHealthCheckUp
  \/ MediaHealthCheckDown
  \/ MediaFetchRejects
  \/ MediaFetchNotOk
  \/ MediaFetchOk
  \/ MediaJsonRejects
  \/ MediaBackendSuccess
  \/ MediaDemoMode
  \/ MediaAnalysisFailed
  \/ MediaFinally

\* onValueChange of the tabs: only the content of the active tab is mounted,
\* so the analyzer that is left loses its state and the one that is entered
\* starts afresh; a FileReader of the detector that is left no longer has a
\* component to update.
setActiveTab(tab) ==
  /\ tab # activeTab
  /\ activeTab' = tab
  /\ subject' = <<>>
  /\ body' = <<>>
  /\ result' = null
  /\ selectedFile' = NoFile
  /\ previewUrl' = NoFile
  /\ detectorResult' = NoResult
  /\ reading' = {}
  /\ UNCHANGED << isAnalyzing, indexVars, toast, pc, callVars, error,
                  demoResult, currentDeepfakeResult, mediaCallVars >>

\* ------------------------------------------------------------------------
\* Specifications
\* ------------------------------------------------------------------------

Next ==
  \/ \E value \in Subjects : setSubject(value)
  \/ \E value \in FormBodies : setBody(value)
  \/ handleAnalyze
  \/ handleEmailAnalysis

\* The page: form, button and handler.
Spec == Init /\ [][Next]_vars

\* Both tabs of the page.
NextPage ==
  \/ \E tab \in {"email", "deepfake"} : setActiveTab(tab)
  \/ activeTab = "email" /\ \E value \in PageSubjects : setSubject(value)
  \/ activeTab = "email" /\ \E value \in PageBodies : setBody(value)
  \/ activeTab = "email" /\ handleAnalyze
  \/ handleEmailAnalysis
  \/ \E f \in Files : handleFileSelect(f)
  \/ \E f \in Files : readerOnload(f)
  \/ handleRemoveFile
  \/ DeepfakeDetector_handleAnalyze
  \/ DeepfakeDetector_handleAnalyzeAnother
  \/ DeepfakeDetector_handleClearForm
  \/ handleDeepfakeAnalysis

\* The page with both tabs: forms, buttons and handlers.
SpecPage == Init /\ [][NextPage]_vars

\* The page when every awaited promise of a running handler settles.
FairSpecPage ==
  /\ SpecPage
  /\ WF_vars(handleEmailAnalysis)
  /\ WF_vars(handleDeepfakeAnalysis)

NextEngine == handleEmailAnalysis

\* One call of handleEmailAnalysis on every argument.
SpecEngine == InitEngine /\ [][NextEngine]_vars

\* ------------------------------------------------------------------------
\* Properties of the demo-mode result
\* ------------------------------------------------------------------------

\* C1: whenever a demo result exists, its label is "Phishing" exactly when
\* the sum of the six reported category scores is at least 2, or the urgency
\* score is at least 1 and a URL was detected; otherwise it is "Safe".
C1_LabelRule ==
  demoResult # NoResult =>
    LET pa       == demoResult.detailed_analysis.pattern_analysis
        total    == pa.urgency_indicators.score + pa.authority_claims.score
                    + pa.financial_incentives.score
                    + pa.action_requirements.score
                    + pa.social_engineering.score
                    + pa.threats_and_pressure.score
        has_urls == demoResult.detailed_analysis.technical_analysis
                      .urls_and_links.total_urls > 0
        expected == IF total >= 2
                       \/ (pa.urgency_indicators.score >= 1 /\ has_urls)
                    THEN "Phishing" ELSE "Safe"
    IN /\ demoResult.label = expected
       /\ demoResult.detailed_analysis.overall_assessment.label = expected

\* A result classified Phishing by the urgency-and-URL rule alone.
C1_Witness ==
  /\ demoResult # NoResult
  /\ demoResult.label = "Phishing"
  /\ demoResult.detailed_analysis.pattern_analysis.urgency_indicators.score
       = 1
  /\ demoResult.detailed_analysis.pattern_analysis.authority_claims.score
       = 0
  /\ demoResult.detailed_analysis.pattern_analysis.action_requirements
       .score = 0
  /\ demoResult.detailed_analysis.pattern_analysis.financial_incentives
       .score = 0
  /\ demoResult.detailed_analysis.pattern_analysis.threats_and_pressure
       .score = 0
  /\ demoResult.detailed_analysis.technical_analysis.urls_and_links
       .total_urls > 0

C3_ConfidenceBounds ==
  demoResult # NoResult =>
    /\ demoResult.confidence >= 0
    /\ demoResult.confidence <= 100
    /\ demoResult.label = "Phishing" => demoResult.confidence >= 50
    /\ demoResult.label = "Safe" => demoResult.confidence <= 50

\* A Phishing result whose uncapped sum exceeds 100.
C3_Witness ==
  /\ demoResult # NoResult
  /\ demoResult.label = "Phishing"
  /\ demoResult.detailed_analysis.pattern_analysis.urgency_indicators
       .score >= 3
  /\ demoResult.detailed_analysis.pattern_analysis.authority_claims
       .score >= 1
  /\ demoResult.confidence = 95

\* C4: the risk level of every demo result is the band of its own
\* confidence: below 40 SAFE, 40..59 LOW RISK, 60..79 MEDIUM RISK, 80 and
\* above HIGH RISK.
C4_RiskBand ==
  demoResult # NoResult =>
    LET oa == demoResult.detailed_analysis.overall_assessment
    IN oa.risk_level =
         CASE oa.confidence < 40 -> "SAFE"
           [] oa.confidence >= 40 /\ oa.confidence <= 59 -> "LOW RISK"
           [] oa.confidence >= 60 /\ oa.confidence <= 79 -> "MEDIUM RISK"
           [] oa.confidence >= 80 -> "HIGH RISK"

\* A result on the lower edge of the HIGH RISK band.
C4_Witness ==
  /\ demoResult # NoResult
  /\ demoResult.detailed_analysis.overall_assessment.confidence = 80
  /\ demoResult.detailed_analysis.overall_assessment.risk_level
       = "HIGH RISK"

\* C5: a demo result labelled Safe has no red flags, even when a threat
\* phrase, a URL or exclamation marks were found in the text.
C5_SafeNoRedFlags ==
  (demoResult # NoResult /\ demoResult.label = "Safe") =>
    demoResult.detailed_analysis.red_flags = <<>>

\* A Safe result for a text with a threat phrase and excessive punctuation.
C5_Witness ==
  /\ demoResult # NoResult
  /\ demoResult.label = "Safe"
  /\ demoResult.detailed_analysis.pattern_analysis.threats_and_pressure
       .score > 0
  /\ demoResult.detailed_analysis.technical_analysis.email_structure
       .excessive_punctuation > 3

\* C6: compared with the demo result at hand, no other input with the same
\* URL and exclamation signals and a higher total category score gets a
\* lower confidence.
C6_ConfidenceMonotone ==
  demoResult # NoResult =>
    \A other \in EmailInputs :
      LET text  == fullText(other)
          mine  == fullText(emailData)
          total == totalSuspiciousScore(urgencyScore(text),
                     authorityScore(text), financialScore(text),
                     actionScore(text), threatScore(text))
          pa    == demoResult.detailed_analysis.pattern_analysis
          score == pa.urgency_indicators.score + pa.authority_claims.score
                   + pa.financial_incentives.score
                   + pa.action_requirements.score
                   + pa.social_engineering.score
                   + pa.threats_and_pressure.score
      IN ( /\ hasUrls(text) = hasUrls(mine)
           /\ hasExclamation(other) = hasExclamation(emailData)
           /\ total > score )
         => demoResultOf(other).confidence >= demoResult.confidence

\* C7: Scenario B (the "Meeting Reminder" email) gets label Safe, confidence
\* at most 25, risk level SAFE, no red flags and three recommendations.
C7_ScenarioB ==
  (demoResult # NoResult /\ emailData = ScenarioB) =>
    /\ demoResult.label = "Safe"
    /\ demoResult.confidence <= 25
    /\ demoResult.detailed_analysis.overall_assessment.risk_level = "SAFE"
    /\ demoResult.detailed_analysis.red_flags = <<>>
    /\ Len(demoResult.detailed_analysis.recommendations) = 3

C9_ScenarioAClassification ==
  (demoResult # NoResult /\ emailData = ScenarioA) =>
    /\ demoResult.label = "Phishing"
    /\ demoResult.confidence >= 85
    /\ demoResult.detailed_analysis.overall_assessment.risk_level
         = "HIGH RISK"

\* The demo result of Scenario A has been produced.
C9_Witness ==
  /\ demoResult # NoResult
  /\ emailData = ScenarioA
  /\ pc = "finally"

\* C10: the red flags of Scenario A include both "Suspicious links present"
\* and "Threats or pressure tactics used".
C10_ScenarioARedFlags ==
  (demoResult # NoResult /\ emailData = ScenarioA) =>
    LET flags == demoResult.detailed_analysis.red_flags
    IN /\ \E i \in 1..Len(flags) : flags[i] = "Suspicious links present"
       /\ \E i \in 1..Len(flags) :
            flags[i] = "Threats or pressure tactics used"

C15_AlwaysFallsBack ==
  (pc = "finally" /\ error # NoError) =>
    /\ demoResult # NoResult
    /\ analysisHistory # <<>>
    /\ analysisHistory[1] = newAnalysis("email", demoResult)

\* C15 (amended): when the catch block has run on a TypeError whose message
\* contains "Failed to fetch" (health check down, or such a fetch rejection)
\* the call ends with a demo result saved as the newest history entry and in
\* localStorage; on any other error (HTTP status not OK, response not JSON,
\* another fetch rejection) it ends with the "Analysis Failed" toast, no
\* result, and the history as it was.
C15_FallsBackOnConnectionErrorOnly ==
  (pc = "finally" /\ error # NoError) =>
    IF /\ error.name = "TypeError"
       /\ includes(error.message,
                   <<"F", "a", "i", "l", "e", "d", " ", "t", "o", " ", "f",
                     "e", "t", "c", "h">>)
    THEN /\ demoResult # NoResult
         /\ analysisHistory = << newAnalysis("email", demoResult) >>
                                \o closureHistory
         /\ localStorage = analysisHistory
         /\ toast = "Email Analysis Complete (Demo Mode)"
    ELSE /\ demoResult = NoResult
         /\ analysisHistory = closureHistory
         /\ toast = "Analysis Failed"

\* The fallback has run on a connection error.
C15_Witness ==
  /\ pc = "finally"
  /\ error = FailedToFetch
  /\ demoResult # NoResult
  /\ analysisHistory # <<>>

\* C16: while both fields of the form are empty or whitespace-only, no step
\* starts an analysis or changes any state but the fields themselves.
C16_NoBlankAnalysis ==
  [][ (trim(subject) = <<>> /\ trim(body) = <<>>)
        => UNCHANGED << result, isAnalyzing, indexVars, pc, callVars, error,
                        demoResult >> ]_vars

\* The form holds only white space and earlier analyses are in the history.
C16_Witness ==
  /\ trim(subject) = <<>>
  /\ body # <<>>
  /\ trim(body) = <<>>
  /\ ~isAnalyzing
  /\ analysisHistory # <<>>

\* C17: once an email analysis has completed and its handler has returned,
\* the EmailAnalyzer displays a result (its result state is not null).
C17_ResultShown ==
  (pc = "idle" /\ showCompletion /\ lastAnalysisType = "email") =>
    result # null

C19_SocialEngineeringScored ==
  demoResult # NoResult =>
    LET text        == toLowerCase(emailData.subject \o <<" ">>
                                     \o emailData.body)
        socialWords == << <<"v", "a", "l", "u", "e", "d", " ", "c", "u",
                            "s", "t", "o", "m", "e", "r">>,
                          <<"a", "s", " ", "a", " ", "t", "o", "k", "e",
                            "n", " ", "o", "f", " ", "a", "p", "p", "r",
                            "e", "c", "i", "a", "t", "i", "o", "n">> >>
        pa          == demoResult.detailed_analysis.pattern_analysis
    IN /\ pa.social_engineering.score
            = Cardinality({ i \in 1..Len(socialWords) :
                              includes(text, socialWords[i]) })
       /\ (pa.social_engineering.score >= 2)
            => demoResult.label = "Phishing"

\* C20: every URL of the email whose host is the shortener bit.ly is listed
\* in shortened_urls and in suspicious_urls of the demo result.
C20_ShortenedUrlsListed ==
  demoResult # NoResult =>
    LET original  == emailData.subject \o <<" ">> \o emailData.body
        ul        == demoResult.detailed_analysis.technical_analysis
                       .urls_and_links
        shortUrls == { <<"h", "t", "t", "p", ":", "/", "/", "b", "i", "t",
                         ".", "l", "y", "/", "x">>,
                       <<"h", "t", "t", "p", ":", "/", "/", "b", "i", "t",
                         ".", "l", "y", "/", "v", "e", "r", "i", "f", "y",
                         "-", "n", "o", "w">> }
        listed(list, url) == \E k \in 1..Len(list) : list[k] = url
    IN \A url \in shortUrls :
         includes(original \o <<" ">>, url \o <<" ">>)
           => /\ listed(ul.shortened_urls, url)
              /\ listed(ul.suspicious_urls, url)

\* C21: every token of the original text that is purely alphabetic, at
\* least three letters long, fully uppercase and not the acronym FAQ is
\* listed in all_caps_words of the demo result, and a Phishing result with
\* such a token has the red flag "Excessive use of capital letters".
C21_AllCapsWordsListed ==
  demoResult # NoResult =>
    LET original == emailData.subject \o <<" ">> \o emailData.body
        n        == Len(original)
        upper    == { UpperCaseLetters[k] : k \in 1..Len(UpperCaseLetters) }
        wordChar == upper
                      \cup { LowerCaseLetters[k] :
                               k \in 1..Len(LowerCaseLetters) }
                      \cup {"0", "1", "2", "3", "4", "5", "6", "7", "8", "9"}
        stoplist == { <<"F", "A", "Q">> }
        spans    == { p \in (1..n) \X (1..n) :
                        /\ p[2] >= p[1] + 2
                        /\ \A k \in p[1]..p[2] :
                             original[k] \in upper
                        /\ p[1] = 1 \/ original[p[1] - 1] \notin wordChar
                        /\ p[2] = n \/ original[p[2] + 1] \notin wordChar }
        tokens   == { SubSeq(original, p[1], p[2]) : p \in spans } \ stoplist
        caps     == demoResult.detailed_analysis.technical_analysis
                      .email_structure.all_caps_words
        flags    == demoResult.detailed_analysis.red_flags
    IN /\ \A token \in tokens : \E k \in 1..Len(caps) : caps[k] = token
       /\ (tokens # {} /\ demoResult.label = "Phishing")
            => \E k \in 1..Len(flags) :
                 flags[k] = "Excessive use of capital letters"

\* C22: the excessive-punctuation signal of a demo result (the formatting
\* flag, the red flag of a Phishing result and the +10 of its confidence)
\* is raised exactly when subject+body holds more than three '!'.
C22_ExclamationAboveThree ==
  demoResult # NoResult =>
    LET joined == emailData.subject \o emailData.body
        count  == Cardinality({ k \in 1..Len(joined) : joined[k] = "!" })
        text   == fullText(emailData)
        total  == Len(demoResult.suspicious_phrases)
        es     == demoResult.detailed_analysis.technical_analysis
                    .email_structure
        flags  == demoResult.detailed_analysis.red_flags
        bonus  == demoResult.confidence
                    = MathMin(95, 50 + (total * 15)
                                  + (IF hasUrls(text) THEN 20 ELSE 0) + 10)
    IN /\ (es.suspicious_formatting = << "Excessive exclamation marks" >>)
            <=> (count > 3)
       /\ demoResult.label = "Phishing" =>
            /\ (\E k \in 1..Len(flags) :
                  flags[k] = "Excessive exclamation marks") <=> (count > 3)
            /\ count > 3 => bonus

\* C23: has_urls of a demo result (total_urls > 0, and for a Phishing
\* result the red flag "Suspicious links present") holds exactly when the
\* text contains "http://", "https://" or "www." followed by a
\* non-whitespace character.
C23_HasUrlsNeedsUrl ==
  demoResult # NoResult =>
    LET text     == fullText(emailData)
        n        == Len(text)
        prefixes == { <<"h", "t", "t", "p", ":", "/", "/">>,
                      <<"h", "t", "t", "p", "s", ":", "/", "/">>,
                      <<"w", "w", "w", ".">> }
        isUrlAt(i, prefix) ==
          /\ i + Len(prefix) <= n
          /\ SubSeq(text, i, i + Len(prefix) - 1) = prefix
          /\ text[i + Len(prefix)] \notin WhiteSpace
        containsUrl == \E i \in 1..n : \E prefix \in prefixes :
                         isUrlAt(i, prefix)
        ul       == demoResult.detailed_analysis.technical_analysis
                      .urls_and_links
        flags    == demoResult.detailed_analysis.red_flags
    IN /\ (ul.total_urls > 0) <=> containsUrl
       /\ demoResult.label = "Phishing" =>
            ((\E k \in 1..Len(flags) : flags[k] = "Suspicious links present")
               <=> containsUrl)

C30_VerifyNowIsPhishing ==
  (/\ demoResult # NoResult
   /\ includes(fullText(emailData), <<"v", "e", "r", "i", "f", "y", " ",
                                      "n", "o", "w">>))
    => LET pa == demoResult.detailed_analysis.pattern_analysis
       IN /\ pa.authority_claims.score >= 1
          /\ pa.action_requirements.score >= 1
          /\ Len(demoResult.suspicious_phrases) >= 2
          /\ demoResult.label = "Phishing"

\* "verify now" is all that was matched: two phrases, no link, no '!'.
C30_Witness ==
  /\ demoResult # NoResult
  /\ includes(fullText(emailData), <<"v", "e", "r", "i", "f", "y", " ", "n",
                                     "o", "w">>)
  /\ demoResult.suspicious_phrases
       = << <<"v", "e", "r", "i", "f", "y">>,
            <<"v", "e", "r", "i", "f", "y", " ", "n", "o", "w">> >>
  /\ demoResult.label = "Phishing"
  /\ demoResult.confidence = 80

\* ------------------------------------------------------------------------
\* Properties of the page with both tabs
\* ------------------------------------------------------------------------

\* C25: isAnalyzing is true exactly while a call of handleEmailAnalysis or
\* of handleDeepfakeAnalysis is between its start and the end of its
\* finally block, and whenever isAnalyzing is true it is eventually false
\* again.
C25_AnalysisEnds ==
  /\ [](isAnalyzing <=> (pc # "idle" \/ mediaPc # "idle"))
  /\ isAnalyzing ~> ~isAnalyzing

\* An email analysis has failed and ended after a media analysis succeeded.
C25_Witness ==
  /\ ~isAnalyzing
  /\ pc = "idle"
  /\ mediaPc = "idle"
  /\ activeTab = "email"
  /\ toast = "Analysis Failed"
  /\ Len(analysisHistory) = 1
  /\ analysisHistory[1].type = "deepfake"

\* C26: the two handlers are never both running, and a running handler's
\* snapshot of analysisHistory is the current history until the handler
\* itself has saved its entry on top of it.
C26_OneAnalysisInFlight ==
  /\ ~(pc # "idle" /\ mediaPc # "idle")
  /\ pc \in {"healthCheck", "fetch", "json", "catch"}
       => closureHistory = analysisHistory
  /\ pc = "finally"
       => \/ closureHistory = analysisHistory
          \/ /\ analysisHistory # <<>>
             /\ closureHistory = Tail(analysisHistory)
  /\ mediaPc \in {"healthCheck", "fetch", "json", "catch"}
       => mediaClosureHistory = analysisHistory
  /\ mediaPc = "finally"
       => \/ mediaClosureHistory = analysisHistory
          \/ /\ analysisHistory # <<>>
             /\ mediaClosureHistory = Tail(analysisHistory)

\* A media analysis has saved its entry on top of an email entry.
C26_Witness ==
  /\ mediaPc = "finally"
  /\ pc = "idle"
  /\ Len(analysisHistory) = 2
  /\ analysisHistory[1].type = "deepfake"
  /\ analysisHistory[2].type = "email"
  /\ mediaClosureHistory = Tail(analysisHistory)

\* C27: a step in which an analysis completes with a result puts exactly one
\* entry of its type in front of analysisHistory and writes the new list to
\* localStorage; every other step, a failing analysis included, leaves both
\* unchanged; stats.totalScans is the length of the history.
C27_HistoryLogsResults ==
  [][ LET emailDone == pc # "finally" /\ pc' = "finally"
          mediaDone == mediaPc # "finally" /\ mediaPc' = "finally"
          completed ==
            \/ /\ emailDone
               /\ toast' \in {"Email Analysis Complete",
                              "Email Analysis Complete (Demo Mode)"}
            \/ /\ mediaDone
               /\ toast' \in {"Media Analysis Complete",
                              "Media Analysis Complete (Demo Mode)"}
      IN /\ IF completed
            THEN /\ Len(analysisHistory') = Len(analysisHistory) + 1
                 /\ Tail(analysisHistory') = analysisHistory
                 /\ analysisHistory'[1].type
                      = (IF emailDone THEN "email" ELSE "deepfake")
                 /\ localStorage' = analysisHistory'
            ELSE UNCHANGED << analysisHistory, localStorage >>
         /\ stats'.totalScans = Len(analysisHistory')
         /\ (emailDone \/ mediaDone)
              => (completed <=> toast' # "Analysis Failed") ]_vars

\* Two analyses have completed, the media one last.
C27_Witness ==
  /\ pc = "idle"
  /\ mediaPc = "idle"
  /\ Len(analysisHistory) = 2
  /\ analysisHistory[1].type = "deepfake"
  /\ analysisHistory[2].type = "email"
  /\ localStorage = analysisHistory
  /\ stats.totalScans = 2

\* C28: a step of the detector that changes the selected file (a valid file
\* is selected, or the file is removed) leaves no result displayed.
C28_NoStaleResult ==
  [][ (activeTab' = activeTab /\ selectedFile' # selectedFile)
        => displayResult' = NoResult ]_vars

\* C29: a selection that is rejected ("Invalid file type", "File too
\* large") leaves selectedFile, previewUrl and the detector's result
\* unchanged, and the selected file as well as the file handed to
\* handleDeepfakeAnalysis is an image or a video within its size limit.
C29_OnlyValidFiles ==
  [][ LET accepted(f) == isImageOrVideo(f) /\ f.size <= maxSize(f)
      IN /\ (/\ toast' # toast
             /\ toast' \in {"Invalid file type", "File too large"})
               => UNCHANGED << selectedFile, previewUrl, detectorResult >>
         /\ selectedFile' # NoFile => accepted(selectedFile')
         /\ mediaPc' # "idle" => accepted(file') ]_vars

\* A file too large was refused while the image of exactly 20MB stayed
\* selected, after an earlier analysis.
C29_Witness ==
  /\ toast = "File too large"
  /\ selectedFile = [ type |-> ImagePng, size |-> 20 * 1024 * 1024 ]
  /\ previewUrl = NoFile
  /\ analysisHistory # <<>>

====
